---------------------------- MODULE Spec2Model ----------------------------
(***************************************************************************)
(* Particle-to-text: the application shell (App), the two iterations of    *)
(* the ParticleScene component kept in src/components/ParticleScene.tsx,   *)
(* and the particle utilities (generateSpherePositions,                    *)
(* sampleTextPositions).                                                   *)
(*                                                                         *)
(* Numbers are fixed point:                                                *)
(*   morph progress      1.0 = One     (Eps = 0.001)                       *)
(*   ease, sines, random 1.0 = 1000                                        *)
(*   world coordinates   1.0 = 1000                                        *)
(*   rotations           1 rad = 100000                                    *)
(*   time                milliseconds                                      *)
(*   colour              one channel, 0..255                               *)
(* Every product is rounded to the nearest unit, as a float operation      *)
(* rounds to the nearest representable value.                              *)
(***************************************************************************)
EXTENDS Integers, Sequences, FiniteSets, TLC

VARIABLES
  version,          \* "v1": ParticleScene.tsx 1-176, "v2": ParticleScene.tsx 177-331
  inputValue,       \* App state
  activeText,
  isPaused,
  isMorphing,
  activeColor,
  particleCount,
  spherePositions,  \* useMemo, source array
  textPositions,    \* useMemo, source array
  displayPositions, \* v2: displayPositions (useMemo); v1: currentPositionsRef.current
  attrArray,        \* the array geometry.attributes.position.array refers to
  effectPending,    \* v1: the passive effect of the last commit has not run yet
  morphProgress,    \* morphProgress.current
  autoRotationY,    \* autoRotationY.current
  rotationX,        \* pointsRef.current.rotation.x
  rotationY,        \* pointsRef.current.rotation.y
  materialColor,    \* materialRef.current.color (red channel)
  needsUpdate,      \* geometry.attributes.position.needsUpdate
  elapsedTime,      \* state.clock.elapsedTime
  delta,            \* the interval of a loop that delivers frames at a fixed rate (0: irregular)
  lastWrite         \* the array the last frame callback stored into ("none": it stored nothing)

vars == << version, inputValue, activeText, isPaused, isMorphing, activeColor,
           particleCount, spherePositions, textPositions, displayPositions,
           attrArray, effectPending, morphProgress, autoRotationY, rotationX,
           rotationY, materialColor, needsUpdate, elapsedTime, delta, lastWrite >>

---------------------------------------------------------------------------
(* Bounds of the model *)

\* the particle counts the slider offers in the model: MaxCount - 1 and MaxCount
MaxCount == 3
\* the frame loop is followed until the clock has run MaxTicks * 200 ms
MaxTicks == 2
\* the longest text ParticleScene is rendered with on its own
MaxTextLen == 2
\* bitmap scale: font size in pixels and padding around the text
fontSize == 8
padding == 2

---------------------------------------------------------------------------
(* Arithmetic *)

Abs(x) == IF x < 0 THEN -x ELSE x
Min(a, b) == IF a < b THEN a ELSE b
Max(a, b) == IF a > b THEN a ELSE b

\* a / b rounded to the nearest integer, halves away from zero (b > 0)
RoundDiv(a, b) == IF a >= 0 THEN (2 * a + b) \div (2 * b)
                  ELSE -((2 * (-a) + b) \div (2 * b))

\* ceil(a / b) for a >= 0, b > 0
CeilDiv(a, b) == (a + b - 1) \div b

\* floor(sqrt(n)) for 0 <= n <= 1000000
ISqrt(n) == CHOOSE r \in 0..1000 : r * r <= n /\ (r + 1) * (r + 1) > n

\* Math.sin(x) for x in thousandths of a radian, in thousandths
\* (Bhaskara's rational approximation on [0, pi], odd and periodic outside)
SinMilli(xm) ==
  LET r == xm % 6284
      h == IF r > 3142 THEN r - 3142 ELSE r
      q == (h * (3142 - h)) \div 1000
      s == RoundDiv(4000 * q, 12340 - q)
  IN  IF r > 3142 THEN -s ELSE s

\* Math.sin(t * Math.PI) for t in thousandths, in thousandths; 0 exactly at t = 0
SinPi(tm) ==
  LET p == tm * (1000 - tm)
  IN  RoundDiv(4000 * p, 1250000 - p)

ZeroArray(n) == [i \in 1..n |-> 0]

---------------------------------------------------------------------------
(* Math.random: a stream of draws in [0, 1), in thousandths *)

RandStreams == { [seed |-> 0, stride |-> 0], [seed |-> 900, stride |-> 370] }
Draw(rnd, i) == (rnd.seed + i * rnd.stride) % 1000

---------------------------------------------------------------------------
(* particleUtils: generateSpherePositions *)

\* Math.cos(phi * i) and Math.sin(phi * i), phi = Math.PI * (3 - Math.sqrt(5)),
\* in thousandths
CosPhi(i) == CASE i = 0 -> 1000 [] i = 1 -> -737 [] i = 2 -> 87 [] i = 3 -> 608
               [] i = 4 -> -985 [] i = 5 -> 844 [] i = 6 -> -260 [] i = 7 -> -461
               [] i = 8 -> 939 [] i = 9 -> -924 [] i = 10 -> 424 [] i = 11 -> 299
               [] OTHER -> -865
SinPhi(i) == CASE i = 0 -> 0 [] i = 1 -> 675 [] i = 2 -> -996 [] i = 3 -> 794
               [] i = 4 -> -174 [] i = 5 -> -537 [] i = 6 -> 966 [] i = 7 -> -887
               [] i = 8 -> 343 [] i = 9 -> 382 [] i = 10 -> -906 [] i = 11 -> 954
               [] OTHER -> -501

\* the value a Float32Array holds after NaN is stored in it
NaN == -999999

\* y that divides by count and not by count - 1
SphereYOpen(i, count) == 1000 - RoundDiv(2000 * i, count)

\* y of point i (0-based), in thousandths: 1 - (i / (count - 1)) * 2
SphereY(i, count) == 1000 - RoundDiv(2000 * i, count - 1)

\* one coordinate of point i: k = 0 (x), 1 (y), 2 (z)
SphereCoord(i, k, count, radius) ==
  IF count = 1 THEN NaN   \* 0 / 0
  ELSE LET y == SphereY(i, count)
           radiusAtY == ISqrt(1000000 - y * y)
           x == RoundDiv(CosPhi(i) * radiusAtY, 1000)
           z == RoundDiv(SinPhi(i) * radiusAtY, 1000)
       IN  CASE k = 0 -> RoundDiv(x * radius, 1000)
             [] k = 1 -> RoundDiv(y * radius, 1000)
             [] OTHER -> RoundDiv(z * radius, 1000)

generateSpherePositions(count, radius) ==
  [n \in 1..(3 * count) |-> SphereCoord((n - 1) \div 3, (n - 1) % 3, count, radius)]

---------------------------------------------------------------------------
(* particleUtils: sampleTextPositions.  A text is a sequence of characters: *)
(* "a" draws ink, " " is white space, "zw" is a character that is not      *)
(* white space and draws no ink (a zero-width or unsupported glyph).       *)

Chars == {"a", " ", "zw"}

\* String.prototype.trim().length
RECURSIVE TrimStart(_)
TrimStart(t) == IF t # << >> /\ Head(t) = " " THEN TrimStart(Tail(t)) ELSE t
RECURSIVE TrimEnd(_)
TrimEnd(t) == IF t # << >> /\ t[Len(t)] = " " THEN TrimEnd(SubSeq(t, 1, Len(t) - 1)) ELSE t
\* a trim that removes nothing
TrimNone(t) == t

Trim(t) == TrimEnd(TrimStart(t))

\* ctx.measureText: the advance of each character at the bitmap's font size
Advance(c) == CASE c = "a" -> (fontSize * 3) \div 4
                [] c = " " -> fontSize \div 4
                [] OTHER   -> 0
RECURSIVE MeasureText(_)
MeasureText(t) == IF t = << >> THEN 0 ELSE Advance(Head(t)) + MeasureText(Tail(t))

\* the canvas after fillRect (black) and fillText (white, centred): the red
\* channel of pixel (x, y) of a width x height canvas
InkHeight == (fontSize * 3) \div 4
RECURSIVE InkAt(_, _)
InkAt(t, dx) == IF t = << >> \/ dx < 0 THEN FALSE
                ELSE IF dx < Advance(Head(t)) THEN Head(t) = "a"
                ELSE InkAt(Tail(t), dx - Advance(Head(t)))
getAlpha(t, width, height, x, y) ==
  LET left == (width - MeasureText(t)) \div 2
      top  == height \div 2 - InkHeight \div 2
  IN  IF x >= 0 /\ x < width /\ y >= top /\ y < top + InkHeight /\ InkAt(t, x - left)
      THEN 255 ELSE 0

\* arr after the Fisher-Yates loop has run from index i (0-based) down to 1,
\* the draw for index i being the stream's draw number d
RECURSIVE ShuffleFrom(_, _, _, _)
ShuffleFrom(arr, i, rnd, d) ==
  IF i <= 0 THEN arr
  ELSE LET j == (Draw(rnd, d) * (i + 1)) \div 1000
           swapped == [arr EXCEPT ![i + 1] = arr[j + 1], ![j + 1] = arr[i + 1]]
       IN  ShuffleFrom(swapped, i - 1, rnd, d + 1)
shuffle(arr, rnd, d) == ShuffleFrom(arr, Len(arr) - 1, rnd, d)

\* the scan grid: x and y run from first in steps of step while below the limit
GridCount(first, limit, step) == IF limit > first THEN CeilDiv(limit - first, step) ELSE 0

\* part_001 (edge detection): the points in scan order
ScanPoints(t, width, height) ==
  LET step == 2
      threshold == 30
      nx == GridCount(2, width - 2, step)
      ny == GridCount(2, height - 2, step)
      grid == [g \in 1..(nx * ny) |->
                 LET x == 2 + step * ((g - 1) % nx)
                     y == 2 + step * ((g - 1) \div nx)
                 IN  [x |-> x, y |-> y,
                      isEdge |-> \/ getAlpha(t, width, height, x, y - step) < threshold
                                 \/ getAlpha(t, width, height, x, y + step) < threshold
                                 \/ getAlpha(t, width, height, x - step, y) < threshold
                                 \/ getAlpha(t, width, height, x + step, y) < threshold]]
      Lit(p) == getAlpha(t, width, height, p.x, p.y) > threshold
  IN  SelectSeq(grid, Lit)

\* edges first, each part shuffled
SortedPoints(points, rnd) ==
  LET IsEdge(p) == p.isEdge
      NotEdge(p) == ~p.isEdge
      edges == SelectSeq(points, IsEdge)
      interior == SelectSeq(points, NotEdge)
  IN  shuffle(edges, rnd, 0) \o shuffle(interior, rnd, Max(Len(edges) - 1, 0))

\* the number of draws the two shuffles of n points take at most
ShuffleDraws(points) ==
  LET IsEdge(p) == p.isEdge
      nEdge == Len(SelectSeq(points, IsEdge))
  IN  Max(nEdge - 1, 0) + Max(Len(points) - nEdge - 1, 0)

\* an index that stops at the last candidate and does not wrap
pixelIndexClamped(i, length) == Min(i, length - 1)

\* part_001 162 (particleUtils.ts 130): i % sortedPoints.length
pixelIndex(i, length) == i % length

\* a buffer one third of the size, to test the length of the degenerate result
targetPositionsShort(count) == ZeroArray(count)

\* part_001 63 (particleUtils.ts 62): new Float32Array(particleCount * 3)
targetPositions(count) == ZeroArray(count * 3)

\* part_001 59-175; hasContext: canvas.getContext('2d') returned a context
sampleTextPositions(text, count, rnd, hasContext) ==
  LET zeros == targetPositions(count)
      textWidth == MeasureText(text)
      textHeight == CeilDiv(fontSize * 3, 2)
      width == textWidth + padding * 2
      height == textHeight + padding * 2
      points == ScanPoints(text, width, height)
      sortedPoints == SortedPoints(points, rnd)
      d0 == ShuffleDraws(points)
      targetWorldWidth == 18
      Coord(n) ==
        LET i == (n - 1) \div 3
            k == (n - 1) % 3
            pt == sortedPoints[pixelIndex(i, Len(sortedPoints)) + 1]
            jx == IF pt.isEdge THEN RoundDiv(Draw(rnd, d0 + 2 * i) - 500, 4)
                  ELSE RoundDiv((Draw(rnd, d0 + 2 * i) - 500) * 5, 2)
            jy == IF pt.isEdge THEN RoundDiv(Draw(rnd, d0 + 2 * i + 1) - 500, 4)
                  ELSE RoundDiv((Draw(rnd, d0 + 2 * i + 1) - 500) * 5, 2)
        IN  CASE k = 0 -> RoundDiv((pt.x * 1000 - width * 500 + jx) * targetWorldWidth, width)
              [] k = 1 -> -RoundDiv((pt.y * 1000 - height * 500 + jy) * targetWorldWidth, width)
              [] OTHER -> 0
  IN  IF text = << >> \/ Len(Trim(text)) = 0 THEN zeros
      ELSE IF ~hasContext THEN zeros
      ELSE IF Len(points) = 0 THEN zeros
      ELSE [n \in 1..(count * 3) |-> Coord(n)]

\* utils/particleUtils.ts (the earlier iteration): every lit pixel of the scan,
\* in scan order
ValidPixels(t, width, height) ==
  LET step == 2
      nx == GridCount(0, width, step)
      ny == GridCount(0, height, step)
      grid == [g \in 1..(nx * ny) |->
                 [x |-> step * ((g - 1) % nx), y |-> step * ((g - 1) \div nx)]]
      Lit(p) == getAlpha(t, width, height, p.x, p.y) > 100
  IN  SelectSeq(grid, Lit)

\* utils/particleUtils.ts 58-147
sampleTextPositionsV1(text, count, rnd, hasContext) ==
  LET zeros == targetPositions(count)
      step == 2
      textWidth == MeasureText(text)
      textHeight == CeilDiv(fontSize * 6, 5)
      width == textWidth + padding * 2
      height == textHeight + padding * 2
      validPixels == ValidPixels(text, width, height)
      targetWidth == 15
      Coord(n) ==
        LET i == (n - 1) \div 3
            k == (n - 1) % 3
            pixel == validPixels[pixelIndex(i, Len(validPixels)) + 1]
            jitterX == (Draw(rnd, 2 * i) - 500) * step
            jitterY == (Draw(rnd, 2 * i + 1) - 500) * step
        IN  CASE k = 0 -> RoundDiv((pixel.x * 1000 - width * 500 + jitterX) * targetWidth, width)
              [] k = 1 -> RoundDiv((-(pixel.y * 1000 - height * 500) + jitterY) * targetWidth, width)
              [] OTHER -> 0
  IN  IF text = << >> \/ Len(Trim(text)) = 0 THEN zeros
      ELSE IF ~hasContext THEN zeros
      ELSE IF Len(validPixels) = 0 THEN zeros
      ELSE [n \in 1..(count * 3) |-> Coord(n)]

---------------------------------------------------------------------------
(* App (part_000) and ParticleScene: constants and inputs *)

\* 0.001, the snap threshold of the progress relaxation, in progress units
Eps == 100
\* progress 1.0
One == 1000 * Eps
\* MORPH_SPEED = 2.5, in tenths
MORPH_SPEED == 25
\* SPHERE_RADIUS = 3.5, in thousandths
SPHERE_RADIUS == 3500

\* the red channel of THEMES[i].color
ThemeRed(i) == CASE i = 1 -> 76 [] i = 2 -> 57 [] i = 3 -> 255 [] i = 4 -> 255 [] OTHER -> 139
\* the swatches the model clicks
ThemeChoices == {1, 2}
\* the positions of the slider
Counts == {MaxCount - 1, MaxCount}
MinCount == MaxCount - 1

\* what the model types into the input box (maxLength 20): nothing, a visible
\* text with a leading blank, a text that draws no ink
InputTexts == { << >>, <<" ", "a">>, <<"zw">> }
\* the text props ParticleScene is rendered with on its own: every text of
\* at most MaxTextLen characters
RECURSIVE TextsUpTo(_)
TextsUpTo(n) == IF n = 0 THEN { << >> }
                ELSE TextsUpTo(n - 1) \cup
                     { Append(t, c) : t \in { u \in TextsUpTo(n - 1) : Len(u) = n - 1 }, c \in Chars }
SampleTexts == TextsUpTo(MaxTextLen)
\* frame deltas in milliseconds: a repeated timestamp, a 5 fps frame, a stalled tab
DeltasMs == {0, 200, 400}
\* state.pointer, in thousandths
Pointers == { [x |-> 0, y |-> 0], [x |-> 1000, y |-> -1000] }

\* the arrays the two generators return for the inputs the model uses,
\* computed once
SphereTable == [c \in Counts |-> generateSpherePositions(c, SPHERE_RADIUS)]
SampleTable ==
  [k \in {"v1", "v2"} \X SampleTexts \X Counts \X RandStreams \X BOOLEAN |->
     IF k[1] = "v1" THEN sampleTextPositionsV1(k[2], k[3], k[4], k[5])
     ELSE sampleTextPositions(k[2], k[3], k[4], k[5])]

\* the sampler each iteration of the scene is paired with
SampleText(ver, text, count, rnd, hasContext) ==
  SampleTable[<<ver, text, count, rnd, hasContext>>]

\* ParticleScene's first render and commit (before any passive effect)
Init ==
  /\ version \in {"v1", "v2"}
  /\ inputValue = << >>
  /\ activeText = << >>
  /\ isPaused = FALSE
  /\ isMorphing = FALSE
  /\ activeColor = 1
  /\ particleCount = MinCount
  /\ spherePositions = SphereTable[MinCount]
  /\ textPositions = ZeroArray(3 * MinCount)
  /\ displayPositions = IF version = "v1" THEN ZeroArray(3 * MinCount)
                        ELSE SphereTable[MinCount]
  /\ attrArray = IF version = "v1" THEN "sphere" ELSE "display"
  /\ effectPending = (version = "v1")
  /\ morphProgress = 0
  /\ autoRotationY = 0
  /\ rotationX = 0
  /\ rotationY = 0
  /\ materialColor = ThemeRed(1)
  /\ needsUpdate = FALSE
  /\ elapsedTime = 0
  /\ delta = 0
  /\ lastWrite = "none"

appVars == << inputValue, activeText, isPaused, isMorphing, activeColor, particleCount >>
engineVars == << morphProgress, autoRotationY, rotationX, rotationY, materialColor,
                 needsUpdate, lastWrite >>
clockVars == << elapsedTime, delta >>
bufferVars == << spherePositions, textPositions, displayPositions, attrArray, effectPending >>

---------------------------------------------------------------------------
(* ParticleScene: render, passive effect *)

\* a re-render that keeps the text target of the previous text
RenderStaleText(text, count, rnd, hasContext) ==
  /\ spherePositions' = IF count # particleCount
                        THEN SphereTable[count]
                        ELSE spherePositions
  /\ textPositions' = IF count # particleCount
                      THEN SampleText(version, text, count, rnd, hasContext)
                      ELSE textPositions
  /\ displayPositions' = IF version = "v2" /\ count # particleCount
                         THEN SphereTable[count]
                         ELSE displayPositions
  /\ effectPending' = (version = "v1" /\ count # particleCount)
  /\ UNCHANGED attrArray

\* the re-render of ParticleScene after App's state became (text, count):
\* the useMemo results whose dependencies changed are recomputed
Render(text, count, rnd, hasContext) ==
  /\ spherePositions' = IF count # particleCount
                        THEN SphereTable[count]
                        ELSE spherePositions
  /\ textPositions' = IF count # particleCount \/ text # activeText
                      THEN SampleText(version, text, count, rnd, hasContext)
                      ELSE textPositions
  /\ displayPositions' = IF version = "v2" /\ count # particleCount
                         THEN SphereTable[count]
                         ELSE displayPositions
  /\ effectPending' = (version = "v1" /\ count # particleCount)
  /\ UNCHANGED attrArray

\* v1 58-72: the passive effect of [spherePositions]
RunEffect ==
  /\ effectPending
  /\ displayPositions' = spherePositions
  /\ attrArray' = "display"
  /\ needsUpdate' = FALSE
  /\ effectPending' = FALSE
  /\ UNCHANGED << version, appVars, spherePositions, textPositions, morphProgress,
                  autoRotationY, rotationX, rotationY, materialColor, lastWrite, clockVars >>

---------------------------------------------------------------------------
(* App: event handlers.  React runs a pending passive effect before it     *)
(* renders again, so a handler acts once the effect has run.               *)

SetInputValue(v) ==
  /\ ~effectPending
  /\ inputValue' = v
  /\ UNCHANGED << version, activeText, isPaused, isMorphing, activeColor, particleCount,
                  bufferVars, engineVars, clockVars >>

\* handleMorph's state change
MorphUpdate(rnd, hasContext) ==
  IF Len(Trim(inputValue)) > 0
  THEN /\ activeText' = inputValue
       /\ isMorphing' = TRUE
       /\ Render(inputValue, particleCount, rnd, hasContext)
       /\ UNCHANGED inputValue
  ELSE UNCHANGED << inputValue, activeText, isMorphing, bufferVars >>

\* handleReset's state change
ResetUpdate ==
  /\ isMorphing' = FALSE
  /\ activeText' = << >>
  /\ inputValue' = << >>
  /\ Render(<< >>, particleCount, [seed |-> 0, stride |-> 0], TRUE)

\* the Morph button, shown while not morphing
handleMorph ==
  /\ ~effectPending
  /\ ~isMorphing
  /\ \E rnd \in RandStreams, hasContext \in BOOLEAN : MorphUpdate(rnd, hasContext)
  /\ UNCHANGED << version, isPaused, activeColor, particleCount, engineVars, clockVars >>

\* the Reset button, shown while morphing
handleReset ==
  /\ ~effectPending
  /\ isMorphing
  /\ ResetUpdate
  /\ UNCHANGED << version, isPaused, activeColor, particleCount, engineVars, clockVars >>

\* the Enter key in the input box
handleKeyDown ==
  /\ ~effectPending
  /\ IF isMorphing
     THEN IF Len(Trim(inputValue)) > 0
          THEN \E rnd \in RandStreams, hasContext \in BOOLEAN : MorphUpdate(rnd, hasContext)
          ELSE ResetUpdate
     ELSE \E rnd \in RandStreams, hasContext \in BOOLEAN : MorphUpdate(rnd, hasContext)
  /\ UNCHANGED << version, isPaused, activeColor, particleCount, engineVars, clockVars >>

TogglePause ==
  /\ ~effectPending
  /\ isPaused' = ~isPaused
  /\ UNCHANGED << version, inputValue, activeText, isMorphing, activeColor, particleCount,
                  bufferVars, engineVars, clockVars >>

SetActiveColor(i) ==
  /\ ~effectPending
  /\ activeColor' = i
  /\ UNCHANGED << version, inputValue, activeText, isPaused, isMorphing, particleCount,
                  bufferVars, engineVars, clockVars >>

\* the particle-count slider
SetParticleCount(n) ==
  /\ ~effectPending
  /\ n # particleCount
  /\ particleCount' = n
  /\ \E rnd \in RandStreams, hasContext \in BOOLEAN : Render(activeText, n, rnd, hasContext)
  /\ UNCHANGED << version, inputValue, activeText, isPaused, isMorphing, activeColor,
                  engineVars, clockVars >>

---------------------------------------------------------------------------
(* ParticleScene: the useFrame callback *)

\* a target that looks at isMorphing alone
targetProgressAnyText == IF isMorphing THEN One ELSE 0

\* targetProgress (246; 84 in v1), from the props of the last commit
targetProgress == IF isMorphing /\ Len(activeText) > 0 THEN One ELSE 0

\* variants of the relaxation step, each with one part of lines 249-254 changed,
\* against which the properties of the step are tested:
\* the factor delta * MORPH_SPEED clamped at 1.2 and not at 1
RelaxProgressLooseClamp(p, target, d) ==
  LET diff == target - p
  IN  IF Abs(diff) > Eps
      THEN p + RoundDiv(diff * Min((d * MORPH_SPEED) \div 10, 1200), 1000)
      ELSE target

\* no snap to the target inside the threshold
RelaxProgressNoSnap(p, target, d) ==
  LET diff == target - p
  IN  IF Abs(diff) > Eps
      THEN p + RoundDiv(diff * Min(d * MORPH_SPEED, 10000), 10000)
      ELSE p

\* a snap to 1 whatever the target
RelaxProgressSnapOne(p, target, d) ==
  LET diff == target - p
  IN  IF Abs(diff) > Eps
      THEN p + RoundDiv(diff * Min(d * MORPH_SPEED, 10000), 10000)
      ELSE One

\* twice the speed
RelaxProgressDoubleSpeed(p, target, d) ==
  LET diff == target - p
  IN  IF Abs(diff) > Eps
      THEN p + RoundDiv(diff * Min(2 * d * MORPH_SPEED, 10000), 10000)
      ELSE target

\* 249-254: morphProgress.current after the relaxation step; d in milliseconds
RelaxProgress(p, target, d) ==
  LET diff == target - p
  IN  IF Abs(diff) > Eps
      THEN p + RoundDiv(diff * Min(d * MORPH_SPEED, 10000), 10000)
      ELSE target

\* 257: ease = t * t * (3 - 2 * t), in thousandths
Ease(p) ==
  LET t == RoundDiv(p * 1000, One)
  IN  RoundDiv(t * t * (3000 - 2 * t), 1000000)

\* 242: color.lerp(targetColor, delta * 3)
LerpColor(c, target, d) == c + RoundDiv((target - c) * d * 3, 1000)

\* 260-261: the auto-rotation added in a frame
RotationStep(ease, d) == RoundDiv(d * (10000 - 8 * ease), 1000)

\* 267: wobble = sin(elapsedTime * 0.5) * 0.1 * (1 - ease)
Wobble(elapsed, ease) == RoundDiv(SinMilli(elapsed \div 2) * (1000 - ease), 100)

\* 291-299: coordinate n of the blended, noise-perturbed position
BlendCoord(n, p, ease, rnd) ==
  LET wobbleIntensity == 2 * SinPi(RoundDiv(p * 1000, One))
      r == Draw(rnd, n - 1) - 500
      noise == IF (n - 1) % 3 = 2 THEN RoundDiv(r * wobbleIntensity * 5, 10000)
               ELSE RoundDiv(r * wobbleIntensity * 2, 10000)
  IN  RoundDiv(spherePositions[n] * (1000 - ease) + textPositions[n] * ease, 1000) + noise

\* a callback without the early return
pausedReturnNever == FALSE

\* 238 (75 in v1): if (isPaused) return
pausedReturn == isPaused

\* geometryRef.current.attributes.position.array
Positions == IF attrArray = "sphere" THEN spherePositions ELSE displayPositions

\* 237-303 (74-148 in v1): one call of the frame callback with the clock's
\* delta d, the pointer ptr and the random stream rnd
FrameStep(d, ptr, rnd) ==
  /\ elapsedTime' = elapsedTime + d
  /\ UNCHANGED << version, delta, appVars, textPositions, attrArray, effectPending >>
  /\ IF pausedReturn
     THEN /\ UNCHANGED << morphProgress, autoRotationY, rotationX, rotationY,
                          materialColor, needsUpdate, spherePositions, displayPositions >>
          /\ lastWrite' = "none"
     ELSE LET p == RelaxProgress(morphProgress, targetProgress, d)
              ease == Ease(p)
              rot == autoRotationY + RotationStep(ease, d)
          IN  /\ materialColor' = LerpColor(materialColor, ThemeRed(activeColor), d)
              /\ morphProgress' = p
              /\ autoRotationY' = rot
              /\ rotationY' = rot + 15 * ptr.x
              /\ rotationX' = Wobble(elapsedTime + d, ease) - 15 * ptr.y
              /\ IF Len(Positions) # particleCount * 3
                 THEN /\ UNCHANGED << needsUpdate, spherePositions, displayPositions >>
                      /\ lastWrite' = "none"
                 ELSE LET written == [n \in 1..(particleCount * 3) |->
                                        BlendCoord(n, p, ease, rnd)]
                      IN  /\ IF attrArray = "sphere"
                             THEN /\ spherePositions' = written
                                  /\ UNCHANGED displayPositions
                             ELSE /\ displayPositions' = written
                                  /\ UNCHANGED spherePositions
                          /\ lastWrite' = attrArray
                          /\ needsUpdate' = TRUE

\* the frame loop calls the callback once per rendered frame
Frame ==
  \E d \in DeltasMs, ptr \in Pointers, rnd \in RandStreams :
    /\ elapsedTime + d <= MaxTicks * 200
    /\ FrameStep(d, ptr, rnd)

Next ==
  \/ \E v \in InputTexts : SetInputValue(v)
  \/ handleMorph
  \/ handleReset
  \/ handleKeyDown
  \/ TogglePause
  \/ \E n \in Counts : SetParticleCount(n)
  \/ RunEffect
  \/ Frame

Spec == Init /\ [][Next]_vars

---------------------------------------------------------------------------
(* The frame callback under a wider range of frame deltas, with morph,     *)
(* reset, pause and theme changes between the frames                       *)

\* up to a second-long stall; 360 ms is the last delta with delta * 2.5 <= 0.9
RelaxDeltas == {0, 100, 240, 360, 400, 1000}

\* frames under SpecRelax start before this much clock time has passed, in ms
MaxRelaxMs == 300

\* the one text the relaxation runs type
RelaxText == <<" ", "a">>

RelaxFrame ==
  \E d \in RelaxDeltas :
    /\ elapsedTime < MaxRelaxMs
    /\ FrameStep(d, [x |-> 1000, y |-> -1000], [seed |-> 900, stride |-> 370])

NextRelax ==
  \/ SetInputValue(RelaxText)
  \/ handleMorph
  \/ handleReset
  \/ TogglePause
  \/ \E i \in ThemeChoices : SetActiveColor(i)
  \/ RunEffect
  \/ RelaxFrame

SpecRelax == Init /\ [][NextRelax]_vars

\* some frame callback ran in this step
FrameAny ==
  \E d \in DeltasMs \cup RelaxDeltas, ptr \in Pointers, rnd \in RandStreams :
    FrameStep(d, ptr, rnd)

Between(x, a, b) == (a <= x /\ x <= b) \/ (b <= x /\ x <= a)

\* C1: in every unpaused frame the new progress lies between the old progress
\* and the target, and stays in [0, 1]
C1_ProgressBetween ==
  [][(FrameAny /\ ~isPaused) =>
       /\ Between(morphProgress', morphProgress, targetProgress)
       /\ morphProgress' >= 0 /\ morphProgress' <= One]_vars

C1_Witness ==
  /\ elapsedTime > 0
  /\ morphProgress > 0 /\ morphProgress < One
  /\ ~isMorphing

\* C2: a frame that runs while isPaused is true mutates no engine state
C2_PausedFrameNoOp ==
  [][(FrameAny /\ isPaused) =>
       UNCHANGED << morphProgress, autoRotationY, rotationX, rotationY, materialColor,
                    spherePositions, textPositions, displayPositions, needsUpdate >>]_vars

\* a paused frame has run (after an unpaused one wrote the display buffer)
\* while progress, colour and buffer all had somewhere to go
C2_Witness ==
  /\ isPaused
  /\ lastWrite = "none" /\ needsUpdate
  /\ attrArray = "display" /\ Len(displayPositions) = 3 * particleCount
  /\ morphProgress # targetProgress
  /\ materialColor # ThemeRed(activeColor)

---------------------------------------------------------------------------
(* Frames at a fixed rate, from progress 0 with the text target set *)

ConvergeDeltas == {4, 16, 100, 200, 400, 1000}

\* frames that bring progress from 0 to exactly 1 at a frame delta of d ms:
\* (1 - k)^n <= exp(-k n) < 0.001 once n >= 7 / k, and one frame more to snap
ConvergeBound(d) == CeilDiv(70000, Min(d * MORPH_SPEED, 10000)) + 1

\* the scene after mount, its effect, typing RelaxText and Morph, before the
\* first frame
InitConverge ==
  /\ version \in {"v1", "v2"}
  /\ delta \in ConvergeDeltas
  /\ inputValue = RelaxText
  /\ activeText = RelaxText
  /\ isPaused = FALSE
  /\ isMorphing = TRUE
  /\ activeColor = 1
  /\ particleCount = MinCount
  /\ spherePositions = SphereTable[MinCount]
  /\ textPositions = SampleText(version, RelaxText, MinCount, [seed |-> 900, stride |-> 370], TRUE)
  /\ displayPositions = SphereTable[MinCount]
  /\ attrArray = "display"
  /\ effectPending = FALSE
  /\ morphProgress = 0
  /\ autoRotationY = 0
  /\ rotationX = 0
  /\ rotationY = 0
  /\ materialColor = ThemeRed(1)
  /\ needsUpdate = FALSE
  /\ elapsedTime = 0
  /\ lastWrite = "none"

FixedFrame ==
  /\ elapsedTime < delta * (ConvergeBound(delta) + 2)
  /\ \E rnd \in RandStreams : FrameStep(delta, [x |-> 0, y |-> 0], rnd)

SpecConverge == InitConverge /\ [][FixedFrame]_vars

\* C3: from progress 0, unpaused frames with target 1 at a fixed positive
\* delta bring progress within 0.001 of 1 after at most ConvergeBound - 1
\* frames and to exactly 1 one frame later, never leaving [0, 1]
C3_Converges ==
  /\ morphProgress >= 0 /\ morphProgress <= One
  /\ elapsedTime >= delta * (ConvergeBound(delta) - 1) => One - morphProgress <= Eps
  /\ elapsedTime >= delta * ConvergeBound(delta) => morphProgress = One

C3_Witness ==
  /\ delta = 16
  /\ morphProgress = One
  /\ elapsedTime < delta * ConvergeBound(delta)

---------------------------------------------------------------------------
(* Buffers *)

\* C5 (as claimed): a frame that finds the display buffer's length different
\* from 3 * particleCount changes nothing
C5_MismatchFrameNoOp ==
  [][(FrameAny /\ Len(Positions) # 3 * particleCount) =>
       UNCHANGED << morphProgress, autoRotationY, rotationX, rotationY, materialColor,
                    spherePositions, textPositions, displayPositions >>]_vars

\* C6 (as claimed): the three buffers have length 3 * particleCount whenever
\* a frame can run
C6_BuffersSameLength ==
  /\ Len(spherePositions) = 3 * particleCount
  /\ Len(textPositions) = 3 * particleCount
  /\ Len(Positions) = 3 * particleCount

\* C7 (as claimed): no frame stores into spherePositions or textPositions
C7_SourcesNeverWritten == lastWrite # "sphere"

\* C8 (as claimed): whenever the text target is all zeros, targetProgress is 0
C8_DegenerateTargetZero ==
  (textPositions = ZeroArray(3 * particleCount)) => targetProgress = 0

---------------------------------------------------------------------------
(* ParticleScene rendered with text and particleCount props of any value *)

\* the candidate list the sampler of iteration ver collects for text
Candidates(ver, text) ==
  IF ver = "v1"
  THEN ValidPixels(text, MeasureText(text) + padding * 2,
                   CeilDiv(fontSize * 6, 5) + padding * 2)
  ELSE ScanPoints(text, MeasureText(text) + padding * 2,
                  CeilDiv(fontSize * 3, 2) + padding * 2)

InitSample ==
  /\ version \in {"v1", "v2"}
  /\ inputValue = << >>
  /\ activeText = << >>
  /\ isPaused = FALSE
  /\ isMorphing \in BOOLEAN
  /\ activeColor = 1
  /\ particleCount = MinCount
  /\ spherePositions = SphereTable[particleCount]
  /\ \E rnd \in RandStreams, hasContext \in BOOLEAN :
       textPositions = SampleText(version, activeText, particleCount, rnd, hasContext)
  /\ displayPositions = IF version = "v1" THEN ZeroArray(3 * particleCount)
                        ELSE SphereTable[particleCount]
  /\ attrArray = IF version = "v1" THEN "sphere" ELSE "display"
  /\ effectPending = (version = "v1")
  /\ morphProgress = 0
  /\ autoRotationY = 0
  /\ rotationX = 0
  /\ rotationY = 0
  /\ materialColor = ThemeRed(1)
  /\ needsUpdate = FALSE
  /\ elapsedTime = 0
  /\ delta = 0
  /\ lastWrite = "none"

\* the parent renders the scene again with other props
SetProps(text, count) ==
  /\ ~effectPending
  /\ activeText' = text
  /\ particleCount' = count
  /\ \E rnd \in RandStreams, hasContext \in BOOLEAN : Render(text, count, rnd, hasContext)
  /\ UNCHANGED << version, inputValue, isPaused, isMorphing, activeColor, engineVars, clockVars >>

NextSample ==
  \/ \E text \in SampleTexts, count \in Counts : SetProps(text, count)
  \/ RunEffect

SpecSample == InitSample /\ [][NextSample]_vars

\* C10: for an empty or whitespace-only text, and for a text whose scan finds
\* no candidate pixel, the sampler returns exactly 3 * particleCount zeros
C10_DegenerateZeros ==
  (Len(Trim(activeText)) = 0 \/ Len(Candidates(version, activeText)) = 0) =>
    /\ Len(textPositions) = 3 * particleCount
    /\ \A n \in 1..Len(textPositions) : textPositions[n] = 0

\* a text that is not blank and whose scan found nothing was sampled again
\* after a particleCount change
C10_Witness ==
  /\ Len(Trim(activeText)) > 0
  /\ Len(Candidates(version, activeText)) = 0
  /\ particleCount = MaxCount
  /\ ~effectPending
  /\ version = "v2"

---------------------------------------------------------------------------
(* ParticleScene rendered with a particleCount prop from 0 to MaxPoints,   *)
(* the buffers computed by the functions of particleUtils                  *)

\* the largest particleCount prop
MaxPoints == 10

PropCounts == 0..MaxPoints
PropTexts == { << >>, <<"a">>, <<"zw">>, <<"a", "a">> }

\* sampleTextPositions of the iteration ver
SampleAny(ver, text, count, rnd, hasContext) ==
  IF ver = "v1" THEN sampleTextPositionsV1(text, count, rnd, hasContext)
  ELSE sampleTextPositions(text, count, rnd, hasContext)

\* the results of the two functions for the props of this section, computed once
PropsSphereTable == [c \in PropCounts |-> generateSpherePositions(c, SPHERE_RADIUS)]
PropsSampleTable ==
  [a \in {"v1", "v2"} \X PropTexts \X PropCounts \X RandStreams \X BOOLEAN |->
     SampleAny(a[1], a[2], a[3], a[4], a[5])]

InitProps ==
  /\ version \in {"v1", "v2"}
  /\ inputValue = << >>
  /\ activeText = << >>
  /\ isPaused = FALSE
  /\ isMorphing = FALSE
  /\ activeColor = 1
  /\ particleCount = MinCount
  /\ spherePositions = PropsSphereTable[MinCount]
  /\ textPositions = ZeroArray(3 * MinCount)
  /\ displayPositions = IF version = "v1" THEN ZeroArray(3 * MinCount)
                        ELSE PropsSphereTable[MinCount]
  /\ attrArray = IF version = "v1" THEN "sphere" ELSE "display"
  /\ effectPending = (version = "v1")
  /\ morphProgress = 0
  /\ autoRotationY = 0
  /\ rotationX = 0
  /\ rotationY = 0
  /\ materialColor = ThemeRed(1)
  /\ needsUpdate = FALSE
  /\ elapsedTime = 0
  /\ delta = 0
  /\ lastWrite = "none"

\* 216-229 (39-48 in v1): the re-render with the props (text, count)
RenderProps(text, count, rnd, hasContext) ==
  /\ spherePositions' = IF count # particleCount
                        THEN PropsSphereTable[count]
                        ELSE spherePositions
  /\ textPositions' = IF count # particleCount \/ text # activeText
                      THEN PropsSampleTable[<<version, text, count, rnd, hasContext>>]
                      ELSE textPositions
  /\ displayPositions' = IF version = "v2" /\ count # particleCount
                         THEN PropsSphereTable[count]
                         ELSE displayPositions
  /\ effectPending' = (version = "v1" /\ count # particleCount)
  /\ UNCHANGED attrArray

\* the parent passes other text and particleCount props
SetPropsAny(text, count) ==
  /\ ~effectPending
  /\ activeText' = text
  /\ particleCount' = count
  /\ \E rnd \in RandStreams, hasContext \in BOOLEAN : RenderProps(text, count, rnd, hasContext)
  /\ UNCHANGED << version, inputValue, isPaused, isMorphing, activeColor, engineVars, clockVars >>

NextProps ==
  \/ \E text \in PropTexts, count \in PropCounts : SetPropsAny(text, count)
  \/ RunEffect

SpecProps == InitProps /\ [][NextProps]_vars

\* the ordered candidate list of the iteration ver: sortedPoints (validPixels)
OrderedCandidates(ver, text, rnd) ==
  IF ver = "v1" THEN Candidates(ver, text) ELSE SortedPoints(Candidates(ver, text), rnd)

\* canvas.width, canvas.height and the world width the text is scaled to
CanvasWidth(text) == MeasureText(text) + padding * 2
CanvasHeight(ver, text) ==
  (IF ver = "v1" THEN CeilDiv(fontSize * 6, 5) ELSE CeilDiv(fontSize * 3, 2)) + padding * 2
WorldWidth(ver) == IF ver = "v1" THEN 15 ELSE 18

\* the largest jitter of a point taken from the candidate at position k of
\* the list, in thousandths of a pixel
JitterMax(ver, text, rnd, k) ==
  IF ver = "v1" THEN 1000
  ELSE IF OrderedCandidates(ver, text, rnd)[k].isEdge THEN 125 ELSE 1250

\* output point i (0-based) of out lies within the jitter of the candidate at
\* position k (1-based) of the list
DerivedFrom(out, i, ver, text, rnd, k) ==
  LET pt == OrderedCandidates(ver, text, rnd)[k]
      w == CanvasWidth(text)
      h == CanvasHeight(ver, text)
      slack == JitterMax(ver, text, rnd, k) * WorldWidth(ver) + w
  IN  /\ Abs(out[3 * i + 1] * w - (pt.x * 1000 - w * 500) * WorldWidth(ver)) <= slack
      /\ Abs(out[3 * i + 2] * w + (pt.y * 1000 - h * 500) * WorldWidth(ver)) <= slack
      /\ out[3 * i + 3] = 0

\* C11: with a non-empty candidate list of length L, output point i is derived
\* from the candidate at index i mod L, which is inside the list, and points
\* i and i + L have the same source
C11_RoundRobin ==
  \A rnd \in RandStreams :
    LET L == Len(OrderedCandidates(version, activeText, rnd))
        out == SampleAny(version, activeText, particleCount, rnd, TRUE)
    IN  (Len(Trim(activeText)) > 0 /\ L > 0) =>
          /\ Len(out) = 3 * particleCount
          /\ textPositions \in { SampleAny(version, activeText, particleCount, r, c) :
                                    r \in RandStreams, c \in BOOLEAN }
          /\ \A i \in 0..(particleCount - 1) :
               /\ pixelIndex(i, L) \in 0..(L - 1)
               /\ DerivedFrom(out, i, version, activeText, rnd, (i % L) + 1)
               /\ i + L < particleCount =>
                    DerivedFrom(out, i + L, version, activeText, rnd, (i % L) + 1)

\* the text "a" has been sampled for more particles than it has candidates
C11_Witness ==
  /\ activeText = <<"a">>
  /\ particleCount > Len(Candidates(version, activeText))
  /\ textPositions # ZeroArray(3 * particleCount)
  /\ ~effectPending

\* a candidate with a stride-distant neighbour that is not lit (the isEdge of
\* part_001 128; the earlier iteration records no such flag)
IsEdgeCandidate(ver, text, pt) ==
  IF ver = "v2" THEN pt.isEdge
  ELSE LET w == CanvasWidth(text)
           h == CanvasHeight(ver, text)
       IN  \/ getAlpha(text, w, h, pt.x, pt.y - 2) <= 100
           \/ getAlpha(text, w, h, pt.x, pt.y + 2) <= 100
           \/ getAlpha(text, w, h, pt.x - 2, pt.y) <= 100
           \/ getAlpha(text, w, h, pt.x + 2, pt.y) <= 100

\* the number of positions of list that hold the point pt
Occurrences(list, pt) == Cardinality({k \in 1..Len(list) : list[k] = pt})

\* list holds every sampled candidate exactly as often as the scan found it,
\* and no interior candidate stands before an edge candidate
EdgesFirst(ver, text, list) ==
  LET scanned == Candidates(ver, text)
  IN  /\ Len(list) = Len(scanned)
      /\ \A k \in 1..Len(scanned) : Occurrences(list, scanned[k]) = Occurrences(scanned, scanned[k])
      /\ \A j, k \in 1..Len(list) :
           (j < k /\ IsEdgeCandidate(ver, text, list[k])) => IsEdgeCandidate(ver, text, list[j])

\* the number of edge candidates of list
EdgeCount(ver, text, list) ==
  Cardinality({k \in 1..Len(list) : IsEdgeCandidate(ver, text, list[k])})

\* the ordering property for the sampler of the state and the stream rnd
EdgeOrdered(rnd) ==
  LET list == OrderedCandidates(version, activeText, rnd)
  IN  Len(list) > 0 =>
        /\ EdgesFirst(version, activeText, list)
        /\ particleCount <= EdgeCount(version, activeText, list) =>
             \A i \in 0..(particleCount - 1) :
               IsEdgeCandidate(version, activeText, list[pixelIndex(i, Len(list)) + 1])

\* C12 (as claimed): the ordered candidate list is a permutation of the
\* sampled candidates with every edge candidate before every interior one, and
\* with particleCount at most the number of edge candidates every output
\* point has an edge candidate as its source
C12_EdgesBeforeInterior == \A rnd \in RandStreams : EdgeOrdered(rnd)

\* the same for the sampler of part_001 alone
EdgesBeforeInteriorV2 == version = "v2" => \A rnd \in RandStreams : EdgeOrdered(rnd)

---------------------------------------------------------------------------
(* ParticleScene with the text prop left empty *)

InitNoText ==
  /\ version \in {"v1", "v2"}
  /\ inputValue = << >>
  /\ activeText = << >>
  /\ isPaused = FALSE
  /\ isMorphing \in BOOLEAN
  /\ activeColor = 1
  /\ particleCount = MinCount
  /\ spherePositions = SphereTable[MinCount]
  /\ textPositions = ZeroArray(3 * MinCount)
  /\ displayPositions = IF version = "v1" THEN ZeroArray(3 * MinCount)
                        ELSE SphereTable[MinCount]
  /\ attrArray = IF version = "v1" THEN "sphere" ELSE "display"
  /\ effectPending = (version = "v1")
  /\ morphProgress = 0
  /\ autoRotationY = 0
  /\ rotationX = 0
  /\ rotationY = 0
  /\ materialColor = ThemeRed(1)
  /\ needsUpdate = FALSE
  /\ elapsedTime = 0
  /\ delta = 0
  /\ lastWrite = "none"

\* the parent passes another isMorphing prop; no useMemo dependency changes
SetIsMorphing(b) ==
  /\ ~effectPending
  /\ isMorphing' = b
  /\ UNCHANGED << version, inputValue, activeText, isPaused, activeColor, particleCount,
                  bufferVars, engineVars, clockVars >>

NextNoText ==
  \/ \E b \in BOOLEAN : SetIsMorphing(b)
  \/ TogglePause
  \/ RunEffect
  \/ Frame

SpecNoText == InitNoText /\ [][NextNoText]_vars

\* C13: while the text stays empty, progress is exactly 0 and every position
\* of the display buffer is the sphere position of radius 3.5, with no noise
C13_StaysOnSphere ==
  /\ morphProgress = 0
  /\ spherePositions = generateSpherePositions(particleCount, SPHERE_RADIUS)
  /\ Positions = spherePositions
  /\ ~effectPending => displayPositions = spherePositions

\* frames have written the display buffer with isMorphing true, the pointer
\* off centre and random draws that are not all one half
C13_Witness ==
  /\ isMorphing
  /\ lastWrite = "display"
  /\ needsUpdate
  /\ elapsedTime >= 400
  /\ rotationY # autoRotationY

---------------------------------------------------------------------------
(* The text changed while a morph is in progress *)

RetargetTexts == { <<" ", "a">>, <<"a", "a">> }

\* the scene after Morph with the input "a" and one frame of 200 ms with the
\* pointer at the centre: progress is one half
InitRetarget ==
  /\ version \in {"v1", "v2"}
  /\ inputValue = <<"a">>
  /\ activeText = <<"a">>
  /\ isPaused = FALSE
  /\ isMorphing = TRUE
  /\ activeColor = 1
  /\ particleCount = MinCount
  /\ spherePositions = SphereTable[MinCount]
  /\ \E rnd \in RandStreams : textPositions = SampleText(version, <<"a">>, MinCount, rnd, TRUE)
  /\ morphProgress = RelaxProgress(0, One, 200)
  /\ \E rnd \in RandStreams :
       displayPositions = [n \in 1..(3 * MinCount) |->
                             BlendCoord(n, morphProgress, Ease(morphProgress), rnd)]
  /\ attrArray = "display"
  /\ effectPending = FALSE
  /\ autoRotationY = RotationStep(Ease(morphProgress), 200)
  /\ rotationX = Wobble(200, Ease(morphProgress))
  /\ rotationY = autoRotationY
  /\ materialColor = ThemeRed(1)
  /\ needsUpdate = TRUE
  /\ elapsedTime = 200
  /\ delta = 0
  /\ lastWrite = "display"

NextRetarget ==
  \/ \E v \in RetargetTexts : SetInputValue(v)
  \/ handleKeyDown
  \/ TogglePause
  \/ Frame

SpecRetarget == InitRetarget /\ [][NextRetarget]_vars

\* the text target is the sample of the current text for the current count
TargetIsCurrent ==
  /\ textPositions \in { SampleText(version, activeText, particleCount, r, c) :
                           r \in RandStreams, c \in BOOLEAN }
  /\ Len(textPositions) = 3 * particleCount
  /\ Len(spherePositions) = 3 * particleCount
  /\ Len(Positions) = 3 * particleCount

\* every coordinate of out is the blend of the sphere with target at progress
\* p, up to the largest noise of lines 291-299
BlendedAgainst(out, target, p) ==
  LET ease == Ease(p)
      wobbleIntensity == 2 * SinPi(RoundDiv(p * 1000, One))
  IN  /\ Len(out) = Len(target)
      /\ \A n \in 1..Len(out) :
           Abs(out[n] - RoundDiv(spherePositions[n] * (1000 - ease) + target[n] * ease, 1000))
             <= (IF (n - 1) % 3 = 2 THEN wobbleIntensity \div 4 ELSE wobbleIntensity \div 10) + 1

\* C14: a change of the text during a morph leaves progress, rotation and the
\* display buffer as they are; at every frame the text target is the sample of
\* the current text with 3 * particleCount entries, and an unpaused frame
\* stores the blend against that target
C14_RetargetSafe ==
  /\ []TargetIsCurrent
  /\ [][activeText' # activeText =>
          UNCHANGED << morphProgress, autoRotationY, rotationX, rotationY,
                       spherePositions, displayPositions, attrArray, needsUpdate >>]_vars
  /\ [][(FrameAny /\ ~isPaused) => BlendedAgainst(Positions', textPositions, morphProgress')]_vars

\* the text was changed to "aa" while progress was between one half and 1, and
\* a frame has since stored the blend against the new target and not the old
C14_Witness ==
  /\ activeText = <<"a", "a">>
  /\ morphProgress > One \div 2 /\ morphProgress < One
  /\ lastWrite = "display"
  /\ BlendedAgainst(displayPositions, textPositions, morphProgress)
  /\ \A r \in RandStreams :
       ~BlendedAgainst(displayPositions,
                       SampleText(version, <<"a">>, particleCount, r, TRUE), morphProgress)

---------------------------------------------------------------------------
(* A particleCount prop of 0 *)

\* C15 (as claimed): a request for a particleCount of 0 or less is rejected:
\* particleCount and the sphere, text and display buffers stay as they were
C15_NonPositiveRejected ==
  [][\A count \in PropCounts :
       (count <= 0 /\ SetPropsAny(activeText, count)) =>
         UNCHANGED << particleCount, spherePositions, textPositions, displayPositions >>]_vars

---------------------------------------------------------------------------
(* generateSpherePositions *)

\* radii in thousandths of a world unit
Radii == {1000, SPHERE_RADIUS, 10000}

\* s holds count points of the sphere of the given radius: y falls from
\* +radius at the first point to -radius at the last, and every point is at
\* distance radius from the origin (squared distance within half a percent,
\* the rounding of the arithmetic)
OnSphere(s, count, radius) ==
  /\ Len(s) = 3 * count
  /\ s[2] = radius
  /\ s[3 * count - 1] = -radius
  /\ \A i \in 1..(count - 1) : s[3 * i + 2] <= s[3 * i - 1]
  /\ \A i \in 0..(count - 1) :
       Abs(s[3 * i + 1] * s[3 * i + 1] + s[3 * i + 2] * s[3 * i + 2]
           + s[3 * i + 3] * s[3 * i + 3] - radius * radius) * 200 <= radius * radius

\* C16: for count >= 2 and radius > 0 generateSpherePositions returns count
\* points with non-increasing y from +radius to -radius, each at distance
\* radius from the origin
C16_SphereShape ==
  particleCount >= 2 =>
    /\ spherePositions = generateSpherePositions(particleCount, SPHERE_RADIUS)
    /\ \A radius \in Radii :
         OnSphere(generateSpherePositions(particleCount, radius), particleCount, radius)

\* the sphere of the largest count has been generated on a re-render
C16_Witness ==
  /\ particleCount = MaxPoints
  /\ ~effectPending
  /\ spherePositions[2] = SPHERE_RADIUS
  /\ spherePositions[3 * MaxPoints - 1] = -SPHERE_RADIUS

\* C17 (as claimed): for count = 1 the single point has y = 0 and lies on the
\* equator at distance radius from the origin, every coordinate a number
C17_SinglePointDefined ==
  particleCount = 1 =>
    /\ Len(spherePositions) = 3
    /\ \A n \in 1..3 : spherePositions[n] # NaN
    /\ spherePositions[2] = 0
    /\ Abs(spherePositions[1] * spherePositions[1] + spherePositions[3] * spherePositions[3]
           - SPHERE_RADIUS * SPHERE_RADIUS) * 200 <= SPHERE_RADIUS * SPHERE_RADIUS

---------------------------------------------------------------------------
(* The application shell: typing, Morph, Reset and Enter *)

ShellTexts == { << >>, <<" ">>, <<"a">>, <<" ", "a">>, <<"zw">> }

NextShell ==
  \/ \E v \in ShellTexts : SetInputValue(v)
  \/ handleMorph
  \/ handleReset
  \/ handleKeyDown
  \/ TogglePause
  \/ RunEffect

SpecShell == Init /\ [][NextShell]_vars

\* t is empty or holds white space only
Blank(t) == \A k \in 1..Len(t) : t[k] = " "

\* C18: isMorphing is true exactly when activeText is not empty, and then
\* activeText has a character that is not white space; Morph or Enter with a
\* blank input in sphere mode changes neither, and Enter with a blank input
\* while morphing resets to sphere mode
C18_ShellInvariant ==
  /\ [](/\ isMorphing <=> activeText # << >>
        /\ activeText # << >> => ~Blank(activeText))
  /\ [][((handleMorph \/ handleKeyDown) /\ ~isMorphing /\ Blank(inputValue)) =>
          UNCHANGED << activeText, isMorphing >>]_vars
  /\ [][(handleKeyDown /\ isMorphing /\ Blank(inputValue)) =>
          (~isMorphing' /\ activeText' = << >>)]_vars

\* a morph is active and the input box holds white space only, so that the
\* next Enter takes the reset branch
C18_Witness ==
  /\ isMorphing
  /\ activeText = <<" ", "a">>
  /\ inputValue = <<" ">>

====
